---- MODULE Spec2Model ----
(***************************************************************************)
(* Model of olist/order.py: the per-order feature extractors of class      *)
(* Order and the training-table assembler get_training_data, run over the  *)
(* dataset store self.data (a dict of pandas DataFrames).                  *)
(*                                                                         *)
(* Representation.                                                         *)
(*   cell    <<>> is NaN/NaT/None, <<v>> is the value v                    *)
(*   row     a record from column names to cells                           *)
(*   frame   [cols |-> set of column names, rows |-> sequence of rows]     *)
(*   store   a function from the dataset names that are present to frames  *)
(*   ids     order, customer and seller ids are modelled by their rank in  *)
(*           sort order (groupby sorts its keys)                           *)
(*   floats  durations, coordinates and distances are exact rationals      *)
(*           <<numerator, denominator>>, denominator > 0, in lowest terms  *)
(***************************************************************************)
EXTENDS Integers, Sequences, FiniteSets, TLC

VARIABLES data, ret

vars == <<data, ret>>

(***************************************************************************)
(* Bounds of the model                                                     *)
(***************************************************************************)
MaxOrders == 2
MaxWaitRows == 2
MaxReviewRows == 2
MaxItemRows == 3
MaxDistItems == 3
MaxGeoRows == 2

(***************************************************************************)
(* Cells                                                                   *)
(***************************************************************************)
NaN == <<>>

Some(v) == <<v>>

IsNull(c) == c = NaN

Val(c) == c[1]

(***************************************************************************)
(* Exact rationals standing for the floats of the code                     *)
(***************************************************************************)
Abs(n) == IF n < 0 THEN -n ELSE n

RECURSIVE GCD(_, _)
GCD(a, b) == IF b = 0 THEN a ELSE GCD(b, a % b)

Rat(n, d) ==
    LET g == GCD(Abs(n), Abs(d))
        s == IF d < 0 THEN -1 ELSE 1
    IN  <<(s * n) \div g, (s * d) \div g>>

RatAdd(p, q) == Rat(p[1] * q[2] + q[1] * p[2], p[2] * q[2])

RatSub(p, q) == Rat(p[1] * q[2] - q[1] * p[2], p[2] * q[2])

RatDivInt(p, k) == Rat(p[1], p[2] * k)

RatAbs(p) == <<Abs(p[1]), p[2]>>

RatPos(p) == p[1] > 0

Zero == Rat(0, 1)

(***************************************************************************)
(* Sequences and frames                                                    *)
(***************************************************************************)
SeqsUpTo(S, n) == UNION {[1..k -> S] : k \in 0..n}

Range(s) == {s[i] : i \in 1..Len(s)}

RECURSIVE SortedSeq(_)
SortedSeq(S) ==
    IF S = {} THEN <<>>
    ELSE LET m == CHOOSE x \in S : \A y \in S : x <= y
         IN  <<m>> \o SortedSeq(S \ {m})

RECURSIVE FlatMap(_, _)
FlatMap(F(_), s) == IF s = <<>> THEN <<>> ELSE F(Head(s)) \o FlatMap(F, Tail(s))

Map(F(_), s) == [i \in 1..Len(s) |-> F(s[i])]

Project(row, cols) == [c \in cols |-> row[c]]

\* frame[[c1, c2, ...]]: column selection
Columns(f, cols) == [cols |-> cols, rows |-> Map(LAMBDA r : Project(r, cols), f.rows)]

\* a boolean-mask row filter frame[mask]
Filter(f, P(_)) == [cols |-> f.cols, rows |-> SelectSeq(f.rows, P)]

\* frame[c] = values computed row by row (adds or overwrites the columns of new)
Assign(f, new, F(_)) ==
    [cols |-> f.cols \cup new,
     rows |-> Map(LAMBDA r : F(r) @@ r, f.rows)]

\* The outcome of a call: a returned frame, or the KeyError of a lookup of a
\* dataset name or a column label that is absent.
Ok(f) == [err |-> "none", frame |-> f]

KeyError(k) == [err |-> "KeyError", key |-> k]

IsOk(r) == r.err = "none"

\* self.data[name][cols]: the first label that the lookup does not find
MissingKey(d, name, cols) ==
    IF name \notin DOMAIN d THEN Some(name)
    ELSE IF cols \subseteq d[name].cols THEN NaN
    ELSE Some(CHOOSE c \in cols \ d[name].cols : TRUE)

(***************************************************************************)
(* get_wait_time                                                           *)
(***************************************************************************)
SecondsPerDay == 86400

WaitCols ==
    {"order_id", "order_status", "order_purchase_timestamp",
     "order_delivered_customer_date", "order_estimated_delivery_date"}

StampCols ==
    {"order_purchase_timestamp", "order_delivered_customer_date",
     "order_estimated_delivery_date"}

WaitOutCols ==
    {"order_id", "wait_time", "expected_wait_time", "delay_vs_expected", "order_status"}

\* The timestamp strings of the model, in seconds after the first of them
StampSeconds ==
    [s \in {"2018-01-01 00:00:00", "2018-01-01 12:00:00",
            "2018-01-02 00:00:00", "2018-01-02 12:00:00"} |->
        CASE s = "2018-01-01 00:00:00" -> 0
          [] s = "2018-01-01 12:00:00" -> 43200
          [] s = "2018-01-02 00:00:00" -> 86400
          [] s = "2018-01-02 12:00:00" -> 129600]

\* pd.to_datetime(col, errors="coerce") on one cell: NaN and unparsable text are NaT
ToDatetime(c) ==
    IF IsNull(c) THEN NaN
    ELSE IF Val(c) \in DOMAIN StampSeconds THEN Some(StampSeconds[Val(c)])
    ELSE NaN

\* (a - b).dt.total_seconds() / 86400
DaysBetween(a, b) ==
    IF IsNull(a) \/ IsNull(b) THEN NaN
    ELSE Some(Rat(Val(a) - Val(b), SecondsPerDay))

\* float subtraction: NaN when either operand is NaN
FSub(x, y) == IF IsNull(x) \/ IsNull(y) THEN NaN ELSE Some(RatSub(Val(x), Val(y)))

\* The difference as it is, early deliveries negative
DelayVsExpected_Unclamped(delay) == delay

\* np.where(delay.isna(), np.nan, np.where(delay > 0, delay, 0.0))
DelayVsExpected(delay) ==
    IF IsNull(delay) THEN NaN
    ELSE IF RatPos(Val(delay)) THEN delay
    ELSE Some(Zero)

\* The store's own orders frame taken as the working frame, with no copy
OrdersWorkingFrame_InPlace(d) ==
    [alias |-> "orders", frame |-> Columns(d["orders"], d["orders"].cols)]

\* The frame the extractor assigns its columns to: orders[cols].copy() of a
\* copy of the store's frame, an object of its own (alias "none").  An alias
\* that names a dataset says the frame is the store's own object.
OrdersWorkingFrame(d) ==
    [alias |-> "none", frame |-> Columns(d["orders"], WaitCols)]

\* df["order_status"] == "delivered"
IsDeliveredRow(r) == r["order_status"] = Some("delivered")

\* The flag ignored: every status kept
DeliveredFilter_Off(f, is_delivered) == f

\* if is_delivered: df = df[df["order_status"] == "delivered"]
DeliveredFilter(f, is_delivered) ==
    IF is_delivered THEN Filter(f, IsDeliveredRow) ELSE f

WaitTimeRow(r) ==
    LET purchase  == ToDatetime(r["order_purchase_timestamp"])
        delivered == ToDatetime(r["order_delivered_customer_date"])
        estimated == ToDatetime(r["order_estimated_delivery_date"])
        wait      == DaysBetween(delivered, purchase)
        expected  == DaysBetween(estimated, purchase)
    IN  [order_purchase_timestamp      |-> purchase,
         order_delivered_customer_date |-> delivered,
         order_estimated_delivery_date |-> estimated,
         wait_time                     |-> wait,
         expected_wait_time            |-> expected,
         delay_vs_expected             |-> DelayVsExpected(FSub(wait, expected))]

\* df after the column assignments of lines 36-60
WaitTimeAssigned(d, is_delivered) ==
    Assign(DeliveredFilter(OrdersWorkingFrame(d).frame, is_delivered),
           StampCols \cup {"wait_time", "expected_wait_time", "delay_vs_expected"},
           WaitTimeRow)

get_wait_time(d, is_delivered) ==
    LET k == MissingKey(d, "orders", WaitCols)
    IN  IF ~IsNull(k) THEN KeyError(Val(k))
        ELSE Ok(Columns(WaitTimeAssigned(d, is_delivered), WaitOutCols))

\* The store after the call: in-place column assignments reach the store only
\* through a working frame that is the store's own object; the filter's
\* .copy() (line 33) detaches the frame when is_delivered is set.
StoreAfterWaitTime(d, is_delivered) ==
    IF ~IsOk(get_wait_time(d, is_delivered)) THEN d
    ELSE LET w == OrdersWorkingFrame(d)
         IN  IF w.alias = "none" \/ is_delivered THEN d
             ELSE [d EXCEPT ![w.alias] = WaitTimeAssigned(d, is_delivered)]

(***************************************************************************)
(* get_review_score                                                        *)
(***************************************************************************)
ReviewCols == {"order_id", "review_score"}

ReviewOutCols == {"order_id", "dim_is_five_star", "dim_is_one_star", "review_score"}

\* A threshold in place of the equality
StarFlag_AtLeast(score, n) ==
    IF ~IsNull(score) /\ Val(score) >= n THEN Some(1) ELSE Some(0)

\* (df["review_score"] == n).astype(int): a NaN score compares unequal
StarFlag(score, n) == IF score = Some(n) THEN Some(1) ELSE Some(0)

ReviewRow(r) ==
    [dim_is_five_star |-> StarFlag(r["review_score"], 5),
     dim_is_one_star  |-> StarFlag(r["review_score"], 1)]

get_review_score(d) ==
    LET k == MissingKey(d, "order_reviews", ReviewCols)
    IN  IF ~IsNull(k) THEN KeyError(Val(k))
        ELSE Ok(Columns(Assign(Columns(d["order_reviews"], ReviewCols),
                               {"dim_is_five_star", "dim_is_one_star"}, ReviewRow),
                        ReviewOutCols))

(***************************************************************************)
(* groupby and left merge                                                  *)
(***************************************************************************)
\* One key per row, as a transform would give, in place of one per group
GroupKeys_PerRow(f, key) ==
    Map(LAMBDA r : Val(r[key]), SelectSeq(f.rows, LAMBDA r : ~IsNull(r[key])))

\* The group keys of groupby(key): the distinct non-null keys, sorted
GroupKeys(f, key) == SortedSeq({Val(r[key]) : r \in {x \in Range(f.rows) : ~IsNull(x[key])}})

\* The rows of one group, in frame order
Group(f, key, k) == SelectSeq(f.rows, LAMBDA r : r[key] = Some(k))

\* groupby(key) followed by an aggregation Agg of each group's rows into a
\* record of the aggregated columns
GroupBy(f, key, out, Agg(_)) ==
    [cols |-> {key} \cup out,
     rows |-> Map(LAMBDA k : [c \in {key} |-> Some(k)] @@ Agg(Group(f, key, k)),
                  GroupKeys(f, key))]

\* a.merge(b, on=key, how="left"): every row of a in order, once per row of b
\* with an equal key (NaN keys match each other), or once with NaN in b's
\* columns when b has none
LeftMerge(a, b, key) ==
    [cols |-> a.cols \cup b.cols,
     rows |-> FlatMap(LAMBDA l :
                LET m == SelectSeq(b.rows, LAMBDA r : r[key] = l[key])
                IN  IF m = <<>> THEN <<l @@ [c \in b.cols \ {key} |-> NaN]>>
                    ELSE Map(LAMBDA r : l @@ r, m),
                a.rows)]

\* columns={old: new}
Rename(f, old, new) ==
    [cols |-> (f.cols \ {old}) \cup {new},
     rows |-> Map(LAMBDA r : [c \in (f.cols \ {old}) \cup {new} |->
                                 IF c = new THEN r[old] ELSE r[c]], f.rows)]

\* dropna(subset=["order_id"]): only the key is looked at
DropNa_OrderIdOnly(f) == Filter(f, LAMBDA r : ~IsNull(r["order_id"]))

\* DataFrame.dropna(): the rows with no NaN in any column
DropNa(f) == Filter(f, LAMBDA r : \A c \in f.cols : ~IsNull(r[c]))

(***************************************************************************)
(* get_number_items, get_number_sellers, get_price_and_freight             *)
(***************************************************************************)
\* GroupBy.size(): the number of rows of the group
SizeAgg(rows) == [number_of_items |-> Some(Len(rows))]

get_number_items(d) ==
    LET k == MissingKey(d, "order_items", {"order_id"})
    IN  IF ~IsNull(k) THEN KeyError(Val(k))
        ELSE Ok(GroupBy(Columns(d["order_items"], {"order_id"}), "order_id",
                        {"number_of_items"}, SizeAgg))

\* count() in place of nunique(): one per row
NUnique_CountRows(rows, c) == Len(rows)

\* SeriesGroupBy.nunique(): the number of distinct non-null values
NUnique(rows, c) == Cardinality({r[c] : r \in Range(rows)} \ {NaN})

NUniqueAgg(rows) == [number_of_sellers |-> Some(NUnique(rows, "seller_id"))]

get_number_sellers(d) ==
    LET k == MissingKey(d, "order_items", {"order_id", "seller_id"})
    IN  IF ~IsNull(k) THEN KeyError(Val(k))
        ELSE Ok(GroupBy(Columns(d["order_items"], {"order_id", "seller_id"}), "order_id",
                        {"number_of_sellers"}, NUniqueAgg))

\* GroupBy.sum(): the sum of the non-null values, 0 when there are none
RECURSIVE SumSkipNa(_, _)
SumSkipNa(rows, c) ==
    IF rows = <<>> THEN 0
    ELSE (IF IsNull(Head(rows)[c]) THEN 0 ELSE Val(Head(rows)[c])) + SumSkipNa(Tail(rows), c)

\* first() in place of sum() for the price
SumAgg_FirstOnly(rows) ==
    [price         |-> Some(SumSkipNa(SubSeq(rows, 1, 1), "price")),
     freight_value |-> Some(SumSkipNa(rows, "freight_value"))]

\* [["price", "freight_value"]].sum(): each column summed on its own
SumAgg(rows) ==
    [price         |-> Some(SumSkipNa(rows, "price")),
     freight_value |-> Some(SumSkipNa(rows, "freight_value"))]

get_price_and_freight(d) ==
    LET k == MissingKey(d, "order_items", {"order_id", "price", "freight_value"})
    IN  IF ~IsNull(k) THEN KeyError(Val(k))
        ELSE Ok(GroupBy(Columns(d["order_items"], {"order_id", "price", "freight_value"}),
                        "order_id", {"price", "freight_value"}, SumAgg))

(***************************************************************************)
(* get_distance_seller_customer                                            *)
(***************************************************************************)
\* olist.utils.haversine_distance(lng1, lat1, lng2, lat2): the great-circle
\* distance in km, NaN when a coordinate is NaN.  The trigonometry is
\* abstracted to the taxicab distance in degrees, which keeps what the
\* extractor relies on: a distance is null exactly when a coordinate is.
haversine_distance(lng1, lat1, lng2, lat2) ==
    IF IsNull(lng1) \/ IsNull(lat1) \/ IsNull(lng2) \/ IsNull(lat2) THEN NaN
    ELSE Some(RatAdd(RatAbs(RatSub(Val(lat1), Val(lat2))),
                     RatAbs(RatSub(Val(lng1), Val(lng2)))))

RECURSIVE RatSum(_)
RatSum(s) == IF s = <<>> THEN Zero ELSE RatAdd(Head(s), RatSum(Tail(s)))

\* The non-null values of a column, in row order
NonNull(rows, c) ==
    Map(LAMBDA r : Val(r[c]), SelectSeq(rows, LAMBDA r : ~IsNull(r[c])))

\* A mean that counts a null as 0
MeanSkipNa_NullAsZero(rows, c) ==
    IF rows = <<>> THEN NaN
    ELSE Some(RatDivInt(RatSum(NonNull(rows, c)), Len(rows)))

\* GroupBy.mean(): the mean of the non-null values, NaN when there are none
MeanSkipNa(rows, c) ==
    LET v == NonNull(rows, c)
    IN  IF v = <<>> THEN NaN ELSE Some(RatDivInt(RatSum(v), Len(v)))

GeoCols == {"geolocation_zip_code_prefix", "geolocation_lat", "geolocation_lng"}

GeoAgg(rows) ==
    [geolocation_lat |-> MeanSkipNa(rows, "geolocation_lat"),
     geolocation_lng |-> MeanSkipNa(rows, "geolocation_lng")]

\* geo_zip: one row per zip prefix with the mean latitude and longitude
GeoZip(d) ==
    GroupBy(Columns(d["geolocation"], GeoCols), "geolocation_zip_code_prefix",
            {"geolocation_lat", "geolocation_lng"}, GeoAgg)

\* geo_zip with its columns renamed for the seller or the customer side
GeoZipAs(d, side) ==
    Rename(Rename(Rename(GeoZip(d), "geolocation_zip_code_prefix", side \o "_zip"),
                  "geolocation_lat", side \o "_lat"),
           "geolocation_lng", side \o "_lng")

OrderCustomer(d) ==
    Rename(LeftMerge(Columns(d["orders"], {"order_id", "customer_id"}),
                     Columns(d["customers"], {"customer_id", "customer_zip_code_prefix"}),
                     "customer_id"),
           "customer_zip_code_prefix", "customer_zip")

OrderSeller(d) ==
    Rename(LeftMerge(Columns(d["order_items"], {"order_id", "seller_id"}),
                     Columns(d["sellers"], {"seller_id", "seller_zip_code_prefix"}),
                     "seller_id"),
           "seller_zip_code_prefix", "seller_zip")

DistanceRow(r) ==
    [distance_km |-> haversine_distance(r["seller_lng"], r["seller_lat"],
                                        r["customer_lng"], r["customer_lat"])]

\* df after steps 4 to 7: one row per item line (and per matching row of the
\* joined tables) with its seller-to-customer distance
DistanceLines(d) ==
    Assign(LeftMerge(LeftMerge(LeftMerge(OrderSeller(d),
                                         Columns(OrderCustomer(d), {"order_id", "customer_zip"}),
                                         "order_id"),
                               GeoZipAs(d, "seller"), "seller_zip"),
                     GeoZipAs(d, "customer"), "customer_zip"),
           {"distance_km"}, DistanceRow)

DistanceAgg(rows) == [distance_seller_customer |-> MeanSkipNa(rows, "distance_km")]

\* The lookups of lines 134-142 in the order the code makes them
DistanceLookups ==
    <<[name |-> "orders",      cols |-> {"order_id", "customer_id"}],
      [name |-> "customers",   cols |-> {"customer_id", "customer_zip_code_prefix"}],
      [name |-> "sellers",     cols |-> {"seller_id", "seller_zip_code_prefix"}],
      [name |-> "order_items", cols |-> {"order_id", "seller_id"}],
      [name |-> "geolocation", cols |-> GeoCols]>>

RECURSIVE FirstMissing(_, _)
FirstMissing(d, lookups) ==
    IF lookups = <<>> THEN NaN
    ELSE LET k == MissingKey(d, Head(lookups).name, Head(lookups).cols)
         IN  IF ~IsNull(k) THEN k ELSE FirstMissing(d, Tail(lookups))

get_distance_seller_customer(d) ==
    LET k == FirstMissing(d, DistanceLookups)
    IN  IF ~IsNull(k) THEN KeyError(Val(k))
        ELSE Ok(GroupBy(DistanceLines(d), "order_id",
                        {"distance_seller_customer"}, DistanceAgg))

(***************************************************************************)
(* get_training_data                                                       *)
(***************************************************************************)
TrainingCols ==
    {"order_id", "wait_time", "expected_wait_time", "delay_vs_expected", "order_status",
     "dim_is_five_star", "dim_is_one_star", "review_score", "number_of_items",
     "number_of_sellers", "price", "freight_value"}

\* The extractors in the order the assembler calls them
Extractors(d, is_delivered, with_distance) ==
    <<[name |-> "get_wait_time",         res |-> get_wait_time(d, is_delivered)],
      [name |-> "get_review_score",      res |-> get_review_score(d)],
      [name |-> "get_number_items",      res |-> get_number_items(d)],
      [name |-> "get_number_sellers",    res |-> get_number_sellers(d)],
      [name |-> "get_price_and_freight", res |-> get_price_and_freight(d)]>>
    \o (IF with_distance
        THEN <<[name |-> "get_distance_seller_customer",
                res  |-> get_distance_seller_customer(d)]>>
        ELSE <<>>)

\* df after the merges of lines 212-220 of the first n extractors
RECURSIVE Merged(_, _)
Merged(ex, n) ==
    IF n = 1 THEN ex[1].res.frame
    ELSE LeftMerge(Merged(ex, n - 1), ex[n].res.frame, "order_id")

\* The extractors that ran to completion before the first one that raised
RECURSIVE Completed(_)
Completed(ex) ==
    IF ex = <<>> \/ ~IsOk(Head(ex).res) THEN <<>>
    ELSE <<Head(ex).name>> \o Completed(Tail(ex))

\* The outcome of get_training_data; done lists the extractors that had run
\* to completion when the call ended
get_training_data(d, is_delivered, with_distance) ==
    LET ex   == Extractors(d, is_delivered, with_distance)
        done == Completed(ex)
    IN  IF Len(done) < Len(ex)
        THEN [err  |-> "KeyError", key |-> ex[Len(done) + 1].res.key, done |-> done]
        ELSE [err   |-> "none",
              frame |-> Columns(DropNa(Merged(ex, Len(ex))),
                                TrainingCols \cup
                                  (IF with_distance THEN {"distance_seller_customer"} ELSE {})),
              done  |-> done]

(***************************************************************************)
(* The calls.  data is self.data; ret is the last call with its arguments  *)
(* and its outcome.                                                        *)
(***************************************************************************)
NoCall == [op |-> "none", args |-> <<>>, res |-> Ok([cols |-> {}, rows |-> <<>>])]

GetWaitTime ==
    \E is_delivered \in BOOLEAN :
        /\ ret' = [op |-> "get_wait_time", args |-> <<is_delivered>>,
                   res |-> get_wait_time(data, is_delivered)]
        /\ data' = StoreAfterWaitTime(data, is_delivered)

\* The other extractors assign columns to frames of their own or to none
GetReviewScore ==
    /\ ret' = [op |-> "get_review_score", args |-> <<>>, res |-> get_review_score(data)]
    /\ UNCHANGED data

GetNumberItems ==
    /\ ret' = [op |-> "get_number_items", args |-> <<>>, res |-> get_number_items(data)]
    /\ UNCHANGED data

GetNumberSellers ==
    /\ ret' = [op |-> "get_number_sellers", args |-> <<>>, res |-> get_number_sellers(data)]
    /\ UNCHANGED data

GetPriceAndFreight ==
    /\ ret' = [op |-> "get_price_and_freight", args |-> <<>>,
               res |-> get_price_and_freight(data)]
    /\ UNCHANGED data

GetDistanceSellerCustomer ==
    /\ ret' = [op |-> "get_distance_seller_customer", args |-> <<>>,
               res |-> get_distance_seller_customer(data)]
    /\ UNCHANGED data

\* get_training_data calls get_wait_time first (line 212), which is the one
\* extractor whose column assignments could reach the store
GetTrainingData ==
    \E is_delivered \in BOOLEAN, with_distance \in BOOLEAN :
        /\ ret' = [op |-> "get_training_data", args |-> <<is_delivered, with_distance>>,
                   res |-> get_training_data(data, is_delivered, with_distance)]
        /\ data' = StoreAfterWaitTime(data, is_delivered)

(***************************************************************************)
(* Dataset stores                                                          *)
(***************************************************************************)
Frame(cols, rows) == [cols |-> cols, rows |-> rows]

RECURSIVE Concat(_)
Concat(ss) == IF ss = <<>> THEN <<>> ELSE Head(ss) \o Concat(Tail(ss))

OrdersCols == WaitCols \cup {"customer_id"}

ItemCols == {"order_id", "seller_id", "price", "freight_value"}

CustomerCols == {"customer_id", "customer_zip_code_prefix"}

SellerCols == {"seller_id", "seller_zip_code_prefix"}

DatasetCols ==
    [orders |-> OrdersCols, order_reviews |-> ReviewCols, order_items |-> ItemCols,
     customers |-> CustomerCols, sellers |-> SellerCols, geolocation |-> GeoCols]

T0 == "2018-01-01 00:00:00"
T1 == "2018-01-01 12:00:00"
T2 == "2018-01-02 00:00:00"
T3 == "2018-01-02 12:00:00"

OrderRow(i, status, purchase, delivered, estimated) ==
    [order_id |-> Some(i), customer_id |-> Some(i), order_status |-> status,
     order_purchase_timestamp |-> purchase,
     order_delivered_customer_date |-> delivered,
     order_estimated_delivery_date |-> estimated]

ReviewRowOf(o, score) == [order_id |-> o, review_score |-> score]

ItemRow(o, seller, price, freight) ==
    [order_id |-> o, seller_id |-> seller, price |-> price, freight_value |-> freight]

GeoRow(zip, lat, lng) ==
    [geolocation_zip_code_prefix |-> Some(zip),
     geolocation_lat |-> Some(Rat(lat, 1)), geolocation_lng |-> Some(Rat(lng, 1))]

\* customer i lives at zip 10, 30 or 20; seller 1 at zip 10, seller 2 at zip 20;
\* the geolocation rows of the fixed tables cover zips 10 and 20 only
CustomerZip(i) == <<10, 30, 20>>[((i - 1) % 3) + 1]

CustomersOf(n) ==
    Frame(CustomerCols,
          [i \in 1..n |-> [customer_id |-> Some(i),
                           customer_zip_code_prefix |-> Some(CustomerZip(i))]])

SellersFixed ==
    Frame(SellerCols,
          <<[seller_id |-> Some(1), seller_zip_code_prefix |-> Some(10)],
            [seller_id |-> Some(2), seller_zip_code_prefix |-> Some(20)]>>)

GeoFixed == Frame(GeoCols, <<GeoRow(10, 0, 0), GeoRow(10, 1, 0), GeoRow(20, 2, 1)>>)

\* One order with its reviews and item lines: the status and the delivered
\* date of the order, the scores of its reviews, the sellers of its item lines.
\* Stores of several orders are built from these eight.
Complete == <<<<Some(5)>>, <<Some(1), Some(2)>>>>

NoReview == <<<<>>, <<Some(1)>>>>

NoItems == <<<<Some(5)>>, <<>>>>

TwoReviews == <<<<Some(1), Some(4)>>, <<Some(4)>>>>

OrderOptions ==
    {[order |-> x[1], reviews |-> x[2][1], items |-> x[2][2]] :
        x \in {<<<<Some("delivered"), Some(T3)>>, Complete>>,
               <<<<Some("delivered"), Some(T3)>>, NoReview>>,
               <<<<Some("delivered"), Some(T3)>>, NoItems>>,
               <<<<Some("delivered"), Some(T3)>>, TwoReviews>>,
               <<<<Some("delivered"), NaN>>, Complete>>,
               <<<<Some("delivered"), NaN>>, TwoReviews>>,
               <<<<Some("shipped"), Some(T1)>>, Complete>>,
               <<<<Some("shipped"), Some(T1)>>, NoReview>>}}

\* Further kinds, tried on stores of a single order
MoreOrderKinds ==
    {<<st, dd>> : st \in {Some("delivered"), Some("shipped"), NaN},
                  dd \in {Some(T1), Some(T2), Some(T3), Some("not a date"), NaN}}

MoreReviewKinds == {<<>>, <<Some(5)>>, <<NaN>>, <<Some(5), Some(5)>>, <<Some(1), Some(4)>>}

MoreItemKinds == {<<>>, <<Some(1)>>, <<Some(1), Some(2)>>, <<Some(4)>>, <<Some(1), Some(4)>>}

MoreOrderOptions == [order : MoreOrderKinds, reviews : MoreReviewKinds, items : MoreItemKinds]

StoreOf(choice) ==
    LET n == Len(choice)
    IN  [orders |->
            Frame(OrdersCols,
                  [i \in 1..n |-> OrderRow(i, choice[i].order[1], Some(T0),
                                           choice[i].order[2], Some(T2))]),
         order_reviews |->
            Frame(ReviewCols,
                  Concat([i \in 1..n |->
                            Map(LAMBDA sc : ReviewRowOf(Some(i), sc), choice[i].reviews)])),
         order_items |->
            Frame(ItemCols,
                  Concat([i \in 1..n |->
                            Map(LAMBDA se : ItemRow(Some(i), se, Some(5), Some(2)),
                                choice[i].items)])),
         customers   |-> CustomersOf(n),
         sellers     |-> SellersFixed,
         geolocation |-> GeoFixed]

\* A store whose orders table holds every row twice
TwiceOrders(d) == [d EXCEPT !["orders"].rows = d["orders"].rows \o d["orders"].rows]

BaseStore == StoreOf(<<>>)

Stores ==
    {StoreOf(c) : c \in SeqsUpTo(OrderOptions, MaxOrders)}
    \cup {StoreOf(<<o>>) : o \in MoreOrderOptions}
    \cup {TwiceOrders(StoreOf(<<o>>)) : o \in OrderOptions}

Init ==
    /\ data \in Stores
    /\ ret = NoCall

Next ==
    \/ GetWaitTime
    \/ GetReviewScore
    \/ GetNumberItems
    \/ GetNumberSellers
    \/ GetPriceAndFreight
    \/ GetDistanceSellerCustomer
    \/ GetTrainingData

Spec == Init /\ [][Next]_vars

(***************************************************************************)
(* get_wait_time alone, over orders tables of every mix of a status, a     *)
(* purchase, a delivered and an estimated date                             *)
(***************************************************************************)
WaitRowKinds ==
    {OrderRow(1, st, pu, dd, es) :
        st \in {Some("delivered"), Some("shipped")},
        pu \in {Some(T0), NaN},
        dd \in {Some(T1), Some(T2), Some(T3), Some("not a date"), NaN},
        es \in {Some(T2), NaN}}

WaitStores ==
    {[BaseStore EXCEPT !["orders"].rows = rows] : rows \in SeqsUpTo(WaitRowKinds, MaxWaitRows)}

InitWait ==
    /\ data \in WaitStores
    /\ ret = NoCall

SpecWait == InitWait /\ [][GetWaitTime]_vars

(***************************************************************************)
(* get_review_score alone, over reviews tables of every score              *)
(***************************************************************************)
ReviewRowKinds ==
    {ReviewRowOf(Some(o), sc) : o \in {1, 2}, sc \in {NaN} \cup {Some(n) : n \in 0..6}}

ReviewStores ==
    {[BaseStore EXCEPT !["order_reviews"].rows = rows] :
        rows \in SeqsUpTo(ReviewRowKinds, MaxReviewRows)}

InitReview ==
    /\ data \in ReviewStores
    /\ ret = NoCall

SpecReview == InitReview /\ [][GetReviewScore]_vars

(***************************************************************************)
(* The item-line aggregations alone                                        *)
(***************************************************************************)
CountRowKinds ==
    {ItemRow(o, se, Some(5), Some(2)) :
        o \in {NaN, Some(1), Some(2)}, se \in {NaN, Some(1), Some(2)}}

CountStores ==
    {[BaseStore EXCEPT !["order_items"].rows = rows] :
        rows \in SeqsUpTo(CountRowKinds, MaxItemRows)}

InitCount ==
    /\ data \in CountStores
    /\ ret = NoCall

SpecCount == InitCount /\ [][GetNumberItems \/ GetNumberSellers]_vars

PriceRowKinds ==
    {ItemRow(Some(o), Some(1), pr, fr) :
        o \in {1, 2}, pr \in {NaN, Some(5), Some(7)}, fr \in {NaN, Some(2)}}

PriceStores ==
    {[BaseStore EXCEPT !["order_items"].rows = rows] :
        rows \in SeqsUpTo(PriceRowKinds, MaxItemRows)}

InitPrice ==
    /\ data \in PriceStores
    /\ ret = NoCall

SpecPrice == InitPrice /\ [][GetPriceAndFreight]_vars

(***************************************************************************)
(* get_distance_seller_customer alone: two orders, item lines of sellers   *)
(* 1, 2 and of a seller 4 that the sellers table does not hold, and        *)
(* geolocation rows that may or may not cover a zip                        *)
(***************************************************************************)
DistItemKinds ==
    {ItemRow(Some(x[1]), Some(x[2]), Some(5), Some(2)) :
        x \in {<<1, 1>>, <<1, 2>>, <<1, 4>>, <<2, 1>>}}

\* The geolocation rows of a zip prefix: the first k of its points, and for
\* zip 30 its one point or none
GeoPoints ==
    [z \in {10, 20, 30} |->
        CASE z = 10 -> <<GeoRow(10, 0, 0), GeoRow(10, 2, 1), GeoRow(10, 5, 0)>>
          [] z = 20 -> <<GeoRow(20, 1, 0), GeoRow(20, 4, 3), GeoRow(20, 2, 2)>>
          [] z = 30 -> <<GeoRow(30, 0, 2)>>]

DistGeoTables ==
    {SubSeq(GeoPoints[10], 1, k[1]) \o SubSeq(GeoPoints[30], 1, k[3])
        \o SubSeq(GeoPoints[20], 1, k[2]) :
        k \in (0..MaxGeoRows) \X (0..MaxGeoRows) \X (0..1)}

DistStores ==
    {[StoreOf(<<[order |-> <<Some("delivered"), Some(T3)>>, reviews |-> <<>>, items |-> <<>>],
               [order |-> <<Some("delivered"), Some(T3)>>, reviews |-> <<>>, items |-> <<>>]>>)
        EXCEPT !["order_items"].rows = items, !["geolocation"].rows = geo] :
        items \in SeqsUpTo(DistItemKinds, MaxDistItems),
        geo \in DistGeoTables}

InitDist ==
    /\ data \in DistStores
    /\ ret = NoCall

SpecDist == InitDist /\ [][GetDistanceSellerCustomer]_vars

(***************************************************************************)
(* Stores that lack a dataset or a column                                  *)
(***************************************************************************)
DatasetNames == DOMAIN DatasetCols

WithoutDataset(d, name) == [n \in DOMAIN d \ {name} |-> d[n]]

WithoutColumn(d, name, col) == [d EXCEPT ![name] = Columns(d[name], d[name].cols \ {col})]

LackingStores ==
    LET full == {StoreOf(<<o>>) : o \in OrderOptions}
    IN  full
        \cup {WithoutDataset(d, n) : d \in full, n \in DatasetNames}
        \cup UNION {{WithoutColumn(d, n, c) : c \in DatasetCols[n]} :
                        d \in full, n \in DatasetNames}

InitLacking ==
    /\ data \in LackingStores
    /\ ret = NoCall

SpecLacking == InitLacking /\ [][Next]_vars

(***************************************************************************)
(* Properties                                                              *)
(***************************************************************************)
Returned(op) == ret.op = op /\ IsOk(ret.res)

RetRows == ret.res.frame.rows

\* C2: in every row that get_wait_time returns, delay_vs_expected is null
\* exactly when wait_time or expected_wait_time is null; otherwise it is
\* wait_time - expected_wait_time when that difference is positive and 0 when
\* it is not, so it is never negative.
C2_DelayPolicy ==
    Returned("get_wait_time") =>
        \A i \in 1..Len(RetRows) :
            LET r == RetRows[i]
                w == r["wait_time"]
                e == r["expected_wait_time"]
                v == r["delay_vs_expected"]
            IN  /\ IsNull(v) <=> (IsNull(w) \/ IsNull(e))
                /\ ~IsNull(v) =>
                      /\ Val(w)[1] * Val(e)[2] > Val(e)[1] * Val(w)[2]
                            => v = Some(RatSub(Val(w), Val(e)))
                      /\ Val(w)[1] * Val(e)[2] <= Val(e)[1] * Val(w)[2]
                            => v = Some(Rat(0, 1))
                      /\ Val(v)[1] >= 0

\* An order delivered before its estimated date is returned with a zero delay,
\* beside a row whose delay is null
C2_Witness ==
    /\ Returned("get_wait_time")
    /\ \E i \in 1..Len(RetRows) :
          /\ ~IsNull(RetRows[i]["wait_time"])
          /\ ~IsNull(RetRows[i]["expected_wait_time"])
          /\ RatSub(Val(RetRows[i]["wait_time"]), Val(RetRows[i]["expected_wait_time"]))[1] < 0
          /\ RetRows[i]["delay_vs_expected"] = Some(Rat(0, 1))
    /\ \E i \in 1..Len(RetRows) :
          /\ IsNull(RetRows[i]["wait_time"])
          /\ IsNull(RetRows[i]["delay_vs_expected"])

\* C5: get_review_score returns one row per review row, in order, with the
\* review's order_id and review_score; in each row dim_is_five_star and
\* dim_is_one_star are 0 or 1 and never both 1, dim_is_five_star is 1 exactly
\* when the score is 5, dim_is_one_star is 1 exactly when the score is 1, and
\* both are 0 for a score outside 1..5 or a null score.
C5_StarFlags ==
    Returned("get_review_score") =>
        /\ Len(RetRows) = Len(data["order_reviews"].rows)
        /\ \A i \in 1..Len(RetRows) :
              LET r  == RetRows[i]
                  sc == data["order_reviews"].rows[i]["review_score"]
                  five == r["dim_is_five_star"]
                  one  == r["dim_is_one_star"]
              IN  /\ r["order_id"] = data["order_reviews"].rows[i]["order_id"]
                  /\ r["review_score"] = sc
                  /\ five \in {Some(0), Some(1)}
                  /\ one \in {Some(0), Some(1)}
                  /\ ~(five = Some(1) /\ one = Some(1))
                  /\ five = Some(1) <=> sc = Some(5)
                  /\ one = Some(1) <=> sc = Some(1)
                  /\ (IsNull(sc) \/ Val(sc) < 1 \/ Val(sc) > 5)
                        => (five = Some(0) /\ one = Some(0))

\* A five-star review beside a review whose score is out of range
C5_Witness ==
    /\ Returned("get_review_score")
    /\ \E i \in 1..Len(RetRows) :
          RetRows[i]["review_score"] = Some(5) /\ RetRows[i]["dim_is_five_star"] = Some(1)
    /\ \E i \in 1..Len(RetRows) :
          /\ RetRows[i]["review_score"] \in {Some(6), Some(0), NaN}
          /\ RetRows[i]["dim_is_five_star"] = Some(0)
          /\ RetRows[i]["dim_is_one_star"] = Some(0)

\* The item lines of the store and, of an order id, the indices of its lines
ItemLines == data["order_items"].rows

LinesOf(o) == {i \in 1..Len(ItemLines) : ItemLines[i]["order_id"] = Some(o)}

IdsWithLines == {Val(ItemLines[i]["order_id"]) :
                    i \in {j \in 1..Len(ItemLines) : ~IsNull(ItemLines[j]["order_id"])}}

\* The returned rows of an order id
RetRowsOf(o) == {i \in 1..Len(RetRows) : RetRows[i]["order_id"] = Some(o)}

\* One returned row per order id that has item lines, and no other row
OneRowPerOrderWithLines ==
    /\ \A o \in IdsWithLines : Cardinality(RetRowsOf(o)) = 1
    /\ \A i \in 1..Len(RetRows) :
          ~IsNull(RetRows[i]["order_id"]) /\ Val(RetRows[i]["order_id"]) \in IdsWithLines

\* The seller ids (nulls are no ids) among the lines of an order
SellersOf(o) == {ItemLines[i]["seller_id"] : i \in LinesOf(o)} \ {NaN}

\* C6: for every order_id with at least one item line get_number_items returns
\* number_of_items = the number of its item lines and get_number_sellers
\* returns number_of_sellers = the number of distinct seller ids among them,
\* which is at most the number of lines; an order_id with no item line has no
\* row in either output.
C6_Counts ==
    /\ Returned("get_number_items") =>
          /\ OneRowPerOrderWithLines
          /\ \A i \in 1..Len(RetRows) :
                RetRows[i]["number_of_items"]
                    = Some(Cardinality(LinesOf(Val(RetRows[i]["order_id"]))))
    /\ Returned("get_number_sellers") =>
          /\ OneRowPerOrderWithLines
          /\ \A i \in 1..Len(RetRows) :
                /\ RetRows[i]["number_of_sellers"]
                      = Some(Cardinality(SellersOf(Val(RetRows[i]["order_id"]))))
                /\ Val(RetRows[i]["number_of_sellers"])
                      <= Cardinality(LinesOf(Val(RetRows[i]["order_id"])))

\* get_number_sellers counts one seller for an order of several lines while
\* another order id of the model has no line and no row
C6_Witness ==
    /\ Returned("get_number_sellers")
    /\ \E i \in 1..Len(RetRows) :
          /\ Cardinality(LinesOf(Val(RetRows[i]["order_id"]))) >= 2
          /\ RetRows[i]["number_of_sellers"] = Some(1)
    /\ \E o \in {1, 2} : LinesOf(o) = {} /\ RetRowsOf(o) = {}

\* The sum of the non-null values of column c over the item lines S
RECURSIVE LineSum(_, _)
LineSum(S, c) ==
    IF S = {} THEN 0
    ELSE LET i == CHOOSE j \in S : TRUE
         IN  (IF IsNull(ItemLines[i][c]) THEN 0 ELSE Val(ItemLines[i][c]))
             + LineSum(S \ {i}, c)

\* C7: for every order_id with at least one item line get_price_and_freight
\* returns price = the sum of price over the order's lines and freight_value =
\* the sum of freight_value over the same lines, each summed on its own (a
\* null cell adds nothing); N lines of one price p give N * p.
C7_Sums ==
    Returned("get_price_and_freight") =>
        /\ OneRowPerOrderWithLines
        /\ \A i \in 1..Len(RetRows) :
              LET o == Val(RetRows[i]["order_id"])
              IN  /\ RetRows[i]["price"] = Some(LineSum(LinesOf(o), "price"))
                  /\ RetRows[i]["freight_value"] = Some(LineSum(LinesOf(o), "freight_value"))
                  /\ \A p \in {5, 7} :
                        (\A j \in LinesOf(o) : ItemLines[j]["price"] = Some(p))
                            => RetRows[i]["price"] = Some(Cardinality(LinesOf(o)) * p)

\* An order of several lines of one price, whose freight sums to another total
C7_Witness ==
    /\ Returned("get_price_and_freight")
    /\ \E i \in 1..Len(RetRows) :
          LET o == Val(RetRows[i]["order_id"])
          IN  /\ Cardinality(LinesOf(o)) >= 2
              /\ \A j \in LinesOf(o) : ItemLines[j]["price"] = Some(5)
              /\ RetRows[i]["price"] = Some(5 * Cardinality(LinesOf(o)))
              /\ RetRows[i]["freight_value"] # RetRows[i]["price"]

\* The cell of column c in the row of frame f whose column k holds key
\* (seller_id, customer_id and order_id are the keys of their tables), NaN
\* when no row holds it
Lookup(f, k, key, c) ==
    IF \E i \in 1..Len(f.rows) : f.rows[i][k] = key
    THEN f.rows[CHOOSE i \in 1..Len(f.rows) : f.rows[i][k] = key][c]
    ELSE NaN

SellerZipOfLine(i) ==
    Lookup(data["sellers"], "seller_id", ItemLines[i]["seller_id"], "seller_zip_code_prefix")

CustomerZipOfLine(i) ==
    Lookup(data["customers"], "customer_id",
           Lookup(data["orders"], "order_id", ItemLines[i]["order_id"], "customer_id"),
           "customer_zip_code_prefix")

\* A zip prefix resolves when the geolocation summary has a row for it
Resolves(zip) ==
    ~IsNull(zip) /\ \E g \in Range(GeoZip(data).rows) : g["geolocation_zip_code_prefix"] = zip

LineDistance(i) ==
    LET sz == SellerZipOfLine(i)
        cz == CustomerZipOfLine(i)
        geo == GeoZip(data)
    IN  haversine_distance(
            Lookup(geo, "geolocation_zip_code_prefix", sz, "geolocation_lng"),
            Lookup(geo, "geolocation_zip_code_prefix", sz, "geolocation_lat"),
            Lookup(geo, "geolocation_zip_code_prefix", cz, "geolocation_lng"),
            Lookup(geo, "geolocation_zip_code_prefix", cz, "geolocation_lat"))

ResolvedLinesOf(o) ==
    {i \in LinesOf(o) : Resolves(SellerZipOfLine(i)) /\ Resolves(CustomerZipOfLine(i))}

RECURSIVE DistanceSum(_)
DistanceSum(S) ==
    IF S = {} THEN Rat(0, 1)
    ELSE LET i == CHOOSE j \in S : TRUE
         IN  RatAdd(Val(LineDistance(i)), DistanceSum(S \ {i}))

\* C8: for every order_id with at least one item line
\* get_distance_seller_customer returns the mean of the seller-to-customer
\* distances of exactly those of its item lines whose seller zip and customer
\* zip both resolve in the geolocation summary; a line with an unresolvable
\* zip has a null distance that the mean leaves out, and the result is null
\* when every line of the order has a null distance.
C8_MeanDistance ==
    Returned("get_distance_seller_customer") =>
        /\ OneRowPerOrderWithLines
        /\ \A i \in LinesOf(1) \cup LinesOf(2) :
              IsNull(LineDistance(i))
                  <=> ~(Resolves(SellerZipOfLine(i)) /\ Resolves(CustomerZipOfLine(i)))
        /\ \A i \in 1..Len(RetRows) :
              LET res == ResolvedLinesOf(Val(RetRows[i]["order_id"]))
              IN  RetRows[i]["distance_seller_customer"] =
                    IF res = {} THEN NaN
                    ELSE Some(RatDivInt(DistanceSum(res), Cardinality(res)))

\* An order of two lines, one of a seller with no zip on record, whose distance
\* is that of the other line, beside an order whose distance is null
C8_Witness ==
    /\ Returned("get_distance_seller_customer")
    /\ \E i \in 1..Len(RetRows) :
          LET o == Val(RetRows[i]["order_id"])
          IN  /\ Cardinality(LinesOf(o)) = 2
              /\ Cardinality(ResolvedLinesOf(o)) = 1
              /\ ~IsNull(RetRows[i]["distance_seller_customer"])
              /\ Val(RetRows[i]["distance_seller_customer"])[1] > 0
    /\ \E i \in 1..Len(RetRows) : IsNull(RetRows[i]["distance_seller_customer"])

Orders == data["orders"].rows

Reviews == data["order_reviews"].rows

\* The order ids of the model's stores
OrderIds == 1..(MaxOrders + 1)

\* C1: whatever the store holds and whatever the flags are, no cell of a row
\* that get_training_data returns is null, in any of its columns (the distance
\* column among them when it is requested).
C1_NoNulls ==
    Returned("get_training_data") =>
        /\ ret.res.frame.cols =
              TrainingCols \cup (IF ret.args[2] THEN {"distance_seller_customer"} ELSE {})
        /\ \A i \in 1..Len(RetRows) :
              \A c \in ret.res.frame.cols : ~IsNull(RetRows[i][c])

\* A call with the distance requested returns some rows and drops others
C1_Witness ==
    /\ Returned("get_training_data")
    /\ ret.args[2]
    /\ RetRows # <<>>
    /\ Len(RetRows) < Len(get_wait_time(data, ret.args[1]).frame.rows)

\* C3: when a required dataset or column is absent from the store,
\* get_training_data fails before any extractor has run, not partway through
\* the pipeline.
C3_FailFast ==
    (ret.op = "get_training_data" /\ ~IsOk(ret.res)) => ret.res.done = <<>>

\* C4: no call changes the tables of the store, and get_training_data called
\* again with the same flags returns the same table, rows and row order alike.
C4_StoreUnchanged ==
    [][/\ data' = data
       /\ (ret.op = "get_training_data" /\ ret'.op = "get_training_data"
              /\ ret'.args = ret.args) => ret'.res = ret.res]_vars

\* get_training_data without the delivered filter has returned rows and the
\* store is one of the stores the program started from
C4_Witness ==
    /\ Returned("get_training_data")
    /\ ~ret.args[1]
    /\ RetRows # <<>>
    /\ data \in Stores

\* The indices of the orders rows whose status is 'delivered', ascending
DeliveredIndices ==
    SortedSeq({i \in 1..Len(Orders) : Orders[i]["order_status"] = Some("delivered")})

\* A cell that holds no date: null, or text that does not parse
NoDate(c) == IsNull(c) \/ Val(c) \notin {T0, T1, T2, T3}

\* C9: with is_delivered set, get_wait_time returns one row for every orders
\* row whose status is 'delivered' and none for another status, and a
\* delivered order whose delivered date is null or unparsable is kept with a
\* null wait_time and a null delay_vs_expected; get_training_data then has no
\* row for that order, nor for an order with no item line or no review, and
\* keeps an order all of whose features are non-null.
C9_DroppedAtAssembly ==
    /\ (Returned("get_wait_time") /\ ret.args[1]) =>
          /\ Len(RetRows) = Len(DeliveredIndices)
          /\ \A k \in 1..Len(RetRows) :
                LET o == Orders[DeliveredIndices[k]]
                IN  /\ RetRows[k]["order_id"] = o["order_id"]
                    /\ RetRows[k]["order_status"] = Some("delivered")
                    /\ NoDate(o["order_delivered_customer_date"])
                          => /\ IsNull(RetRows[k]["wait_time"])
                             /\ IsNull(RetRows[k]["delay_vs_expected"])
    /\ (Returned("get_training_data") /\ ret.args[1]) =>
          /\ \A i \in 1..Len(Orders) :
                NoDate(Orders[i]["order_delivered_customer_date"])
                    => RetRowsOf(Val(Orders[i]["order_id"])) = {}
          /\ \A o \in OrderIds :
                (LinesOf(o) = {} \/ ~\E j \in 1..Len(Reviews) : Reviews[j]["order_id"] = Some(o))
                    => RetRowsOf(o) = {}
          /\ \A i \in 1..Len(Orders) :
                LET o == Val(Orders[i]["order_id"])
                IN  (/\ Orders[i]["order_status"] = Some("delivered")
                     /\ \A c \in StampCols : ~NoDate(Orders[i][c])
                     /\ \E j \in 1..Len(Reviews) : Reviews[j]["order_id"] = Some(o)
                     /\ \A j \in 1..Len(Reviews) :
                           Reviews[j]["order_id"] = Some(o) => ~IsNull(Reviews[j]["review_score"])
                     /\ LinesOf(o) # {}
                     /\ ret.args[2] =>
                           \E r \in Range(get_distance_seller_customer(data).frame.rows) :
                               r["order_id"] = Some(o) /\ ~IsNull(r["distance_seller_customer"]))
                    => RetRowsOf(o) # {}

\* The store holds a delivered order with no delivered date and an order with
\* every feature, and the table returned holds the second and not the first
C9_Witness ==
    /\ Returned("get_training_data")
    /\ ret.args[1]
    /\ \E i \in 1..Len(Orders) :
          /\ Orders[i]["order_status"] = Some("delivered")
          /\ NoDate(Orders[i]["order_delivered_customer_date"])
          /\ LinesOf(Val(Orders[i]["order_id"])) # {}
          /\ RetRowsOf(Val(Orders[i]["order_id"])) = {}
    /\ RetRows # <<>>

OrdersUnique ==
    \A i, j \in 1..Len(Orders) : i # j => Orders[i]["order_id"] # Orders[j]["order_id"]

ReviewsUnique ==
    \A i, j \in 1..Len(Reviews) : i # j => Reviews[i]["order_id"] # Reviews[j]["order_id"]

RetOrderIdsUnique ==
    \A i, j \in 1..Len(RetRows) : i # j => RetRows[i]["order_id"] # RetRows[j]["order_id"]

\* C10 as claimed: with order_id unique in the orders table every order_id is
\* in at most one row of the table get_training_data returns, even when the
\* reviews table holds several rows of one order_id.
C10_AsClaimed ==
    (Returned("get_training_data") /\ OrdersUnique) => RetOrderIdsUnique

\* C10: with order_id unique in the orders table and in the reviews table,
\* every order_id is in at most one row of the table get_training_data returns.
C10_OneRowPerOrder ==
    (Returned("get_training_data") /\ OrdersUnique /\ ReviewsUnique) => RetOrderIdsUnique

\* Two orders, each reviewed once and of several item lines, are both returned
C10_Witness ==
    /\ Returned("get_training_data")
    /\ OrdersUnique
    /\ ReviewsUnique
    /\ Len(RetRows) >= 2
    /\ \E i \in 1..Len(RetRows) : Val(RetRows[i]["number_of_items"]) >= 2

====
